---- MODULE Spec2Model ----
(***************************************************************************)
(* Model of superset/tags/commands/create.py: the two tag-creation         *)
(* commands (CreateCustomTagCommand, CreateCustomTagWithRelationships-     *)
(* Command), their validate/run methods, and the persistence gateway       *)
(* (TagDAO, db.session) they call.                                         *)
(***************************************************************************)
EXTENDS Integers, Sequences, FiniteSets, TLC

VARIABLES store, store0, pc, req, validated, failures, outcome, calls, tagRef, pending

vars == <<store, store0, pc, req, validated, failures, outcome, calls, tagRef, pending>>

(* ---------------------------------------------------------------------- *)
(* Bounds of the model                                                     *)
(* ---------------------------------------------------------------------- *)
MaxObjs == 2
MaxId == 1
MaxTags == 2

(* ---------------------------------------------------------------------- *)
(* Values                                                                  *)
(* ---------------------------------------------------------------------- *)
\* Python's None, where the value is otherwise a string
NoneVal == "None"

Procs == {"p1", "p2"}

\* object-type tokens a caller may pass: an enum name, an enum member, junk
Tokens == {"chart", "ObjectTypes.dashboard", "bogus"}

Ids == (0 - MaxId)..MaxId

\* tag names are character sequences, " " is whitespace
Names == { <<"a">>, <<" ", "a", " ">>, <<"b">> }

Descriptions == {NoneVal, "", "d1", "d2"}

RECURSIVE SeqsUpTo(_, _)
SeqsUpTo(S, n) ==
    IF n = 0 THEN {<<>>}
    ELSE LET shorter == SeqsUpTo(S, n - 1)
         IN  shorter \cup {Append(s, x) : s \in {t \in shorter : Len(t) = n - 1}, x \in S}

ObjectLists == SeqsUpTo(Tokens \X Ids, MaxObjs)

TagLists == SeqsUpTo({<<"a">>, <<"b">>}, MaxTags)

NoReq == [cmd |-> "none"]

(* ---------------------------------------------------------------------- *)
(* Pure helpers                                                            *)
(* ---------------------------------------------------------------------- *)
\* superset.tags.commands.utils.to_object_type
to_object_type(token) ==
    CASE token \in {"ObjectTypes.chart", "ObjectTypes.dashboard"} -> token
      [] token = "chart" -> "ObjectTypes.chart"
      [] token = "dashboard" -> "ObjectTypes.dashboard"
      [] OTHER -> NoneVal

\* str.strip()
RECURSIVE lstrip(_)
lstrip(s) == IF s # <<>> /\ Head(s) = " " THEN lstrip(Tail(s)) ELSE s

RECURSIVE rstrip(_)
rstrip(s) ==
    IF s # <<>> /\ s[Len(s)] = " " THEN rstrip(SubSeq(s, 1, Len(s) - 1)) ELSE s

strip(s) == rstrip(lstrip(s))

(* ---------------------------------------------------------------------- *)
(* Exceptions                                                              *)
(* ---------------------------------------------------------------------- *)
\* an exception built without arguments carries its class's default message
DefaultMessage == "default"
NoValue == ""

Failure(kind, msg, value) == [kind |-> kind, msg |-> msg, value |-> value]

\* what the DAO methods raise, and what Session.commit raises
DAOError == "DAOCreateFailedError"
SessionCommitError == "SQLAlchemyError"

\* except DAOCreateFailedError as ex: raise TagCreateFailedError() from ex
Reraise(kind) == IF kind = DAOError THEN "TagCreateFailedError" ELSE kind

(* ---------------------------------------------------------------------- *)
(* Requests (__init__)                                                     *)
(* ---------------------------------------------------------------------- *)
CustomReq(object_type, object_id, tags) ==
    [cmd |-> "CreateCustomTagCommand", object_type |-> object_type,
     object_id |-> object_id, tags |-> tags]

\* data.get("objects_to_tag") is None when the key is absent
RelReq(name, present, objects_to_tag, description, bulk_create) ==
    [cmd |-> "CreateCustomTagWithRelationshipsCommand", tag |-> name,
     objects_present |-> present, objects_to_tag |-> objects_to_tag,
     description |-> description, bulk_create |-> bulk_create]

\* if self._objects_to_tag:
HasObjects(r) == r.objects_present /\ r.objects_to_tag # <<>>

\* the description update nested under `if self._objects_to_tag:`
HasDescriptionWithObjects(r) ==
    /\ r.description \notin {NoneVal, ""}
    /\ r.objects_present
    /\ r.objects_to_tag # <<>>

\* if self._description:
HasDescription(r) == r.description \notin {NoneVal, ""}

\* the name passed on without strip()
TagNameArgUnstripped(r) == r.tag

\* self._tag.strip()
TagNameArg(r) == strip(r.tag)

Indices(s) == 1..Len(s)

(* ---------------------------------------------------------------------- *)
(* validate                                                                *)
(* ---------------------------------------------------------------------- *)
CustomValidateFailures(r) ==
    (IF r.object_id = 0
        THEN <<Failure("TagCreateFailedError", DefaultMessage, NoValue)>>
        ELSE <<>>)
    \o
    (IF to_object_type(r.object_type) = NoneVal
        THEN <<Failure("TagCreateFailedError", "invalid object type", r.object_type)>>
        ELSE <<>>)

RECURSIVE RelTypeFailures(_)
RelTypeFailures(objs) ==
    IF objs = <<>> THEN <<>>
    ELSE LET object_type == to_object_type(Head(objs)[1])
         IN  (IF object_type = NoneVal
                 THEN <<Failure("TagInvalidError", "invalid object type", object_type)>>
                 ELSE <<>>)
             \o RelTypeFailures(Tail(objs))

RelValidateFailures(r) ==
    IF HasObjects(r)
    THEN (IF \E i \in Indices(r.objects_to_tag) : r.objects_to_tag[i][2] = 0
             THEN <<Failure("TagInvalidError", DefaultMessage, NoValue)>>
             ELSE <<>>)
         \o RelTypeFailures(r.objects_to_tag)
    ELSE <<>>

(* ---------------------------------------------------------------------- *)
(* The order of the statements of run                                      *)
(* ---------------------------------------------------------------------- *)
\* run without its leading self.validate()
RunEntrySkipsValidate(r) ==
    IF r.cmd = "CreateCustomTagCommand"
    THEN "create_custom_tagged_objects"
    ELSE "get_by_name"

\* the first statement of both run methods
RunEntry(r) == "validate"

\* the description assigned and committed before the relationships are created
RelNextStepDescriptionFirst(r, at) ==
    CASE at = "validate" -> "get_by_name"
      [] at = "get_by_name" ->
            IF HasDescription(r) THEN "assign"
            ELSE IF HasObjects(r) THEN "create_tag_relationship" ELSE "return"
      [] at = "assign" -> "commit"
      [] at = "commit" ->
            IF HasObjects(r) THEN "create_tag_relationship" ELSE "return"
      [] OTHER -> "return"

\* CreateCustomTagWithRelationshipsCommand.run: the statement after `at`
RelNextStep(r, at) ==
    CASE at = "validate" -> "get_by_name"
      [] at = "get_by_name" ->
            IF HasObjects(r) THEN "create_tag_relationship"
            ELSE IF HasDescription(r) THEN "assign" ELSE "return"
      [] at = "create_tag_relationship" ->
            IF HasDescription(r) THEN "assign" ELSE "return"
      [] at = "assign" -> "commit"
      [] OTHER -> "return"

\* CreateCustomTagCommand.run
CustomNextStep(r, at) ==
    CASE at = "validate" -> "create_custom_tagged_objects"
      [] OTHER -> "return"

(* ---------------------------------------------------------------------- *)
(* Persistence gateway: TagDAO and db.session                              *)
(* ---------------------------------------------------------------------- *)
EmptyStore == [tags |-> <<>>, assocs |-> {}]

TagRow(name, description) == [name |-> name, description |-> description]

Assoc(tag, object_type, object_id) ==
    [tag |-> tag, object_type |-> object_type, object_id |-> object_id]

\* index of the Tag row get_by_name returns: the first row of that name, or
\* the row it appends
TagIndex(st, name) ==
    IF \E i \in Indices(st.tags) : st.tags[i].name = name
    THEN CHOOSE i \in Indices(st.tags) :
            /\ st.tags[i].name = name
            /\ \A j \in Indices(st.tags) : st.tags[j].name = name => i <= j
    ELSE Len(st.tags) + 1

\* TagDAO.get_by_name(name, TagTypes.custom): one atomic lookup-or-create
get_by_name(st, name) ==
    IF \E i \in Indices(st.tags) : st.tags[i].name = name
    THEN st
    ELSE [st EXCEPT !.tags = Append(@, TagRow(name, NoneVal))]

\* TagDAO.create_tag_relationship: associates the first n references with
\* the tag (n = Len(objs) when the call succeeds)
create_tag_relationship(st, objs, tag, n) ==
    [st EXCEPT !.assocs =
        @ \cup {Assoc(tag, to_object_type(objs[i][1]), objs[i][2]) : i \in 1..n}]

\* how many references a failed create_tag_relationship may have applied:
\* a bulk call is one unit, individual calls may stop part-way
PartialCounts(r) ==
    IF r.bulk_create THEN {0} ELSE 0..(Len(r.objects_to_tag) - 1)

\* TagDAO.create_custom_tagged_objects: creates or reuses every named tag
\* and associates it with the object
RECURSIVE create_custom_tagged_objects(_, _, _, _)
create_custom_tagged_objects(st, object_type, object_id, tag_names) ==
    IF tag_names = <<>> THEN st
    ELSE LET st1 == get_by_name(st, Head(tag_names))
             st2 == [st1 EXCEPT !.assocs =
                        @ \cup {Assoc(TagIndex(st1, Head(tag_names)),
                                      object_type, object_id)}]
         IN  create_custom_tagged_objects(st2, object_type, object_id,
                                          Tail(tag_names))

\* db.session.commit() of the pending tag.description
commit(st, tag, description) ==
    [st EXCEPT !.tags[tag].description = description]

Call(op, name, objs, tag_names) ==
    [op |-> op, name |-> name, objs |-> objs, tag_names |-> tag_names]

\* states the store can be in when a command starts
InitStores ==
    { EmptyStore,
      [tags |-> <<TagRow(<<"a">>, "d0")>>,
       assocs |-> {Assoc(1, "ObjectTypes.chart", 7)}] }

(* ---------------------------------------------------------------------- *)
(* Initial state                                                           *)
(* ---------------------------------------------------------------------- *)
Init ==
    /\ store \in InitStores
    /\ store0 = store
    /\ pc = [p \in Procs |-> "idle"]
    /\ req = [p \in Procs |-> NoReq]
    /\ validated = [p \in Procs |-> FALSE]
    /\ failures = [p \in Procs |-> <<>>]
    /\ outcome = [p \in Procs |-> "none"]
    /\ calls = [p \in Procs |-> <<>>]
    /\ tagRef = [p \in Procs |-> 0]
    /\ pending = [p \in Procs |-> NoneVal]

(* ---------------------------------------------------------------------- *)
(* Steps shared by the actions                                             *)
(* ---------------------------------------------------------------------- *)
\* run continues at statement `next`, or returns normally
Goto(p, next) ==
    /\ pc' = [pc EXCEPT ![p] = IF next = "return" THEN "done" ELSE next]
    /\ outcome' = [outcome EXCEPT ![p] = IF next = "return" THEN "ok" ELSE @]

\* run ends with an exception of the given kind
Raise(p, kind) ==
    /\ pc' = [pc EXCEPT ![p] = "done"]
    /\ outcome' = [outcome EXCEPT ![p] = kind]

Log(p, call) == calls' = [calls EXCEPT ![p] = Append(@, call)]

(* ---------------------------------------------------------------------- *)
(* Actions                                                                 *)
(* ---------------------------------------------------------------------- *)
\* CreateCustomTagCommand(object_type, object_id, tags).run() is invoked
ConstructCustom(p) ==
    /\ pc[p] = "idle"
    /\ \E object_type \in Tokens, object_id \in Ids, tags \in TagLists :
          LET r == CustomReq(object_type, object_id, tags)
          IN  /\ req' = [req EXCEPT ![p] = r]
              /\ pc' = [pc EXCEPT ![p] = RunEntry(r)]
    /\ UNCHANGED <<store, store0, validated, failures, outcome, calls, tagRef, pending>>

\* CreateCustomTagWithRelationshipsCommand(data, bulk_create).run() is invoked
ConstructRel(p) ==
    /\ pc[p] = "idle"
    /\ \E name \in Names, present \in BOOLEAN, objs \in ObjectLists,
          description \in Descriptions, bulk_create \in BOOLEAN :
          LET r == RelReq(name, present, IF present THEN objs ELSE <<>>,
                          description, bulk_create)
          IN  /\ req' = [req EXCEPT ![p] = r]
              /\ pc' = [pc EXCEPT ![p] = RunEntry(r)]
    /\ UNCHANGED <<store, store0, validated, failures, outcome, calls, tagRef, pending>>

\* CreateCustomTagCommand.validate
ValidateCustom(p) ==
    /\ pc[p] = "validate"
    /\ req[p].cmd = "CreateCustomTagCommand"
    /\ LET fs == CustomValidateFailures(req[p])
       IN  /\ failures' = [failures EXCEPT ![p] = fs]
           /\ validated' = [validated EXCEPT ![p] = TRUE]
           /\ IF fs # <<>>
                 THEN Raise(p, "TagInvalidError")
                 ELSE Goto(p, CustomNextStep(req[p], "validate"))
    /\ UNCHANGED <<store, store0, req, calls, tagRef, pending>>

\* CreateCustomTagWithRelationshipsCommand.validate
ValidateRel(p) ==
    /\ pc[p] = "validate"
    /\ req[p].cmd = "CreateCustomTagWithRelationshipsCommand"
    /\ LET fs == RelValidateFailures(req[p])
       IN  /\ failures' = [failures EXCEPT ![p] = fs]
           /\ validated' = [validated EXCEPT ![p] = TRUE]
           /\ IF fs # <<>>
                 THEN Raise(p, "TagInvalidError")
                 ELSE Goto(p, RelNextStep(req[p], "validate"))
    /\ UNCHANGED <<store, store0, req, calls, tagRef, pending>>

\* CreateCustomTagCommand.run, the try block
CreateCustomTaggedObjects(p) ==
    /\ pc[p] = "create_custom_tagged_objects"
    /\ LET r == req[p]
           object_type == to_object_type(r.object_type)
       IN  IF object_type = NoneVal
           THEN /\ Raise(p, "TagCreateFailedError")
                /\ UNCHANGED <<store, calls>>
           ELSE /\ Log(p, Call("create_custom_tagged_objects", <<>>,
                               <<<<object_type, r.object_id>>>>, r.tags))
                /\ \E ok \in BOOLEAN :
                      IF ok
                      THEN /\ store' = create_custom_tagged_objects(
                                          store, object_type, r.object_id, r.tags)
                           /\ Goto(p, CustomNextStep(r, "create_custom_tagged_objects"))
                      ELSE /\ Raise(p, Reraise(DAOError))
                           /\ UNCHANGED store
    /\ UNCHANGED <<store0, req, validated, failures, tagRef, pending>>

\* tag = TagDAO.get_by_name(self._tag.strip(), TagTypes.custom)
GetByName(p) ==
    /\ pc[p] = "get_by_name"
    /\ LET r == req[p]
           name == TagNameArg(r)
       IN  /\ Log(p, Call("get_by_name", name, <<>>, <<>>))
           /\ \E ok \in BOOLEAN :
                 IF ok
                 THEN /\ store' = get_by_name(store, name)
                      /\ tagRef' = [tagRef EXCEPT ![p] = TagIndex(store, name)]
                      /\ Goto(p, RelNextStep(r, "get_by_name"))
                 ELSE /\ Raise(p, Reraise(DAOError))
                      /\ UNCHANGED <<store, tagRef>>
    /\ UNCHANGED <<store0, req, validated, failures, pending>>

\* TagDAO.create_tag_relationship(objects_to_tag, tag, bulk_create)
CreateTagRelationship(p) ==
    /\ pc[p] = "create_tag_relationship"
    /\ LET r == req[p]
       IN  /\ Log(p, Call("create_tag_relationship", store.tags[tagRef[p]].name,
                          r.objects_to_tag, <<>>))
           /\ \E ok \in BOOLEAN :
                 IF ok
                 THEN /\ store' = create_tag_relationship(
                                     store, r.objects_to_tag, tagRef[p],
                                     Len(r.objects_to_tag))
                      /\ Goto(p, RelNextStep(r, "create_tag_relationship"))
                 ELSE /\ \E n \in PartialCounts(r) :
                            store' = create_tag_relationship(
                                        store, r.objects_to_tag, tagRef[p], n)
                      /\ Raise(p, Reraise(DAOError))
    /\ UNCHANGED <<store0, req, validated, failures, tagRef, pending>>

\* tag.description = self._description
AssignDescription(p) ==
    /\ pc[p] = "assign"
    /\ pending' = [pending EXCEPT ![p] = req[p].description]
    /\ Goto(p, RelNextStep(req[p], "assign"))
    /\ UNCHANGED <<store, store0, req, validated, failures, calls, tagRef>>

\* db.session.commit()
Commit(p) ==
    /\ pc[p] = "commit"
    /\ Log(p, Call("commit", store.tags[tagRef[p]].name, <<>>, <<>>))
    /\ \E ok \in BOOLEAN :
          IF ok
          THEN /\ store' = commit(store, tagRef[p], pending[p])
               /\ Goto(p, RelNextStep(req[p], "commit"))
          ELSE /\ Raise(p, Reraise(SessionCommitError))
               /\ UNCHANGED store
    /\ UNCHANGED <<store0, req, validated, failures, tagRef, pending>>

(* ---------------------------------------------------------------------- *)
(* One invocation of either command against a store                        *)
(* ---------------------------------------------------------------------- *)
Caller == "p1"

Next ==
    \/ ConstructCustom(Caller)
    \/ ConstructRel(Caller)
    \/ ValidateCustom(Caller)
    \/ ValidateRel(Caller)
    \/ CreateCustomTaggedObjects(Caller)
    \/ GetByName(Caller)
    \/ CreateTagRelationship(Caller)
    \/ AssignDescription(Caller)
    \/ Commit(Caller)

Spec == Init /\ [][Next]_vars

(* ---------------------------------------------------------------------- *)
(* Concurrent invocations of CreateCustomTagWithRelationshipsCommand,      *)
(* interleaved at the gateway calls                                        *)
(* ---------------------------------------------------------------------- *)
ConcObjectLists ==
    { <<>>, << <<"chart", 1>> >>, << <<"chart", 0>> >>,
      << <<"chart", 1>>, <<"ObjectTypes.dashboard", 1>> >> }

ConcDescriptions == {NoneVal, "d1", "d2"}

ConstructRelConc(p) ==
    /\ pc[p] = "idle"
    /\ \E name \in Names, objs \in ConcObjectLists,
          description \in ConcDescriptions, bulk_create \in BOOLEAN :
          LET r == RelReq(name, TRUE, objs, description, bulk_create)
          IN  /\ req' = [req EXCEPT ![p] = r]
              /\ pc' = [pc EXCEPT ![p] = RunEntry(r)]
    /\ UNCHANGED <<store, store0, validated, failures, outcome, calls, tagRef, pending>>

NextConc ==
    \E p \in Procs :
        \/ ConstructRelConc(p)
        \/ ValidateRel(p)
        \/ GetByName(p)
        \/ CreateTagRelationship(p)
        \/ AssignDescription(p)
        \/ Commit(p)

SpecConc == Init /\ [][NextConc]_vars

(* ---------------------------------------------------------------------- *)
(* Vocabulary of the properties                                            *)
(* ---------------------------------------------------------------------- *)
\* how a failure would name an id: by its decimal form
IdStr(i) == IF i = 0 THEN "0" ELSE IF i < 0 THEN "negative" ELSE "positive"

IsCustom(p) == req[p].cmd = "CreateCustomTagCommand"
IsRel(p) == req[p].cmd = "CreateCustomTagWithRelationshipsCommand"

Ops(cs) == [i \in Indices(cs) |-> cs[i].op]

IsPrefix(s, t) == Len(s) <= Len(t) /\ s = SubSeq(t, 1, Len(s))

ZeroIdCount(objs) == Cardinality({i \in Indices(objs) : objs[i][2] = 0})

UnresolvedCount(objs) ==
    Cardinality({i \in Indices(objs) : to_object_type(objs[i][1]) = NoneVal})

\* the references of a request, empty when the key is absent
ObjectsOf(p) == IF req[p].objects_present THEN req[p].objects_to_tag ELSE <<>>

NonEmptyDescription(p) == req[p].description # NoneVal /\ req[p].description # ""

\* the description the resolved Tag had when the invocation started
DescriptionBefore(p) ==
    IF tagRef[p] <= Len(store0.tags)
    THEN store0.tags[tagRef[p]].description
    ELSE NoneVal

StoredDescription(p) == store.tags[tagRef[p]].description

LastOp(p) == calls[p][Len(calls[p])].op

RelationshipsFailed(p) ==
    /\ pc[p] = "done"
    /\ calls[p] # <<>>
    /\ LastOp(p) = "create_tag_relationship"
    /\ outcome[p] # "ok"

AssocsOf(p) ==
    {Assoc(tagRef[p], to_object_type(ObjectsOf(p)[i][1]), ObjectsOf(p)[i][2]) :
        i \in Indices(ObjectsOf(p))}

ExpectedOps(p, withDescription) ==
    <<"get_by_name">>
    \o (IF ObjectsOf(p) # <<>> THEN <<"create_tag_relationship">> ELSE <<>>)
    \o (IF withDescription THEN <<"commit">> ELSE <<>>)

(* ---------------------------------------------------------------------- *)
(* C1                                                                      *)
(* ---------------------------------------------------------------------- *)
\* C1: in both commands a gateway call is made only after validate has
\* completed without failures, and a run that ends with TagInvalidError has
\* made no gateway call and left the store as it was.
C1_ValidateBeforeGateway ==
    \A p \in Procs :
        /\ calls[p] # <<>> => validated[p] /\ failures[p] = <<>>
        /\ outcome[p] = "TagInvalidError" =>
              /\ failures[p] # <<>>
              /\ calls[p] = <<>>
              /\ store = store0

C1_Witness ==
    /\ IsRel(Caller)
    /\ outcome[Caller] = "TagInvalidError"
    /\ Len(failures[Caller]) = 2
    /\ req[Caller].description = "d1"

(* ---------------------------------------------------------------------- *)
(* C2                                                                      *)
(* ---------------------------------------------------------------------- *)
\* C2: when a request carries a description and references and the
\* create-relationships call fails, the Tag's stored description is the one
\* it had before the invocation, and the description was never assigned.
C2_DescriptionUntouchedOnRelationshipFailure ==
    \A p \in Procs :
        (IsRel(p) /\ req[p].description # NoneVal /\ ObjectsOf(p) # <<>>
            /\ RelationshipsFailed(p))
        => /\ StoredDescription(p) = DescriptionBefore(p)
           /\ pending[p] = NoneVal
           /\ "commit" \notin {calls[p][i].op : i \in Indices(calls[p])}

C2_Witness ==
    /\ IsRel(Caller)
    /\ req[Caller].description = "d1"
    /\ Len(ObjectsOf(Caller)) = 2
    /\ RelationshipsFailed(Caller)
    /\ outcome[Caller] = "TagCreateFailedError"
    /\ store0 # EmptyStore
    /\ StoredDescription(Caller) = "d0"

(* ---------------------------------------------------------------------- *)
(* C3                                                                      *)
(* ---------------------------------------------------------------------- *)
\* C3: run ends only by returning normally, with TagInvalidError or with
\* TagCreateFailedError; every gateway failure, the commit's included,
\* leaves run as TagCreateFailedError.
C3_OnlyCommandErrorsEscape ==
    \A p \in Procs :
        /\ outcome[p] \in {"none", "ok", "TagInvalidError", "TagCreateFailedError"}
        /\ (pc[p] = "done" /\ calls[p] # <<>> /\ outcome[p] # "ok")
              => outcome[p] = "TagCreateFailedError"

(* ---------------------------------------------------------------------- *)
(* C4                                                                      *)
(* ---------------------------------------------------------------------- *)
\* C4: the bulk command's validate records one failure per zero id and one
\* per unresolved type, and raises exactly when that number is positive.
C4_OneFailurePerViolation ==
    \A p \in Procs :
        (IsRel(p) /\ validated[p]) =>
            /\ Len(failures[p]) =
                  ZeroIdCount(ObjectsOf(p)) + UnresolvedCount(ObjectsOf(p))
            /\ (outcome[p] = "TagInvalidError") <=> (Len(failures[p]) > 0)

(* ---------------------------------------------------------------------- *)
(* C5                                                                      *)
(* ---------------------------------------------------------------------- *)
\* C5: in both commands every reference whose type token is outside the
\* enumeration yields a failure that carries that token, and a token inside
\* the enumeration yields no type failure.
C5_TypeFailureNamesToken ==
    \A p \in Procs :
        /\ (IsCustom(p) /\ validated[p]) =>
              IF to_object_type(req[p].object_type) = NoneVal
              THEN \E i \in Indices(failures[p]) :
                      failures[p][i].value = req[p].object_type
              ELSE \A i \in Indices(failures[p]) :
                      failures[p][i].msg # "invalid object type"
        /\ (IsRel(p) /\ validated[p]) =>
              /\ \A k \in Indices(ObjectsOf(p)) :
                    to_object_type(ObjectsOf(p)[k][1]) = NoneVal =>
                       \E i \in Indices(failures[p]) :
                          failures[p][i].value = ObjectsOf(p)[k][1]
              /\ UnresolvedCount(ObjectsOf(p)) = 0 =>
                    \A i \in Indices(failures[p]) :
                       failures[p][i].msg # "invalid object type"

(* ---------------------------------------------------------------------- *)
(* C6                                                                      *)
(* ---------------------------------------------------------------------- *)
\* C6: under any interleaving of the bulk command's invocations the store
\* never holds two Tag rows whose names are equal after trimming; every
\* invocation resolves its tag with at most one get-or-create call, made on
\* the trimmed name, and a normally returning one with exactly one.
C6_OneTagPerName ==
    /\ \A i, j \in Indices(store.tags) :
          strip(store.tags[i].name) = strip(store.tags[j].name) => i = j
    /\ \A p \in Procs :
          IsRel(p) =>
             LET lookups == {i \in Indices(calls[p]) : calls[p][i].op = "get_by_name"}
             IN  /\ Cardinality(lookups) <= 1
                 /\ \A i \in lookups : i = 1 /\ calls[p][i].name = strip(req[p].tag)
                 /\ outcome[p] = "ok" =>
                       /\ Cardinality(lookups) = 1
                       /\ strip(store.tags[tagRef[p]].name) = strip(req[p].tag)

C6_Witness ==
    /\ store0 = EmptyStore
    /\ \A p \in Procs : pc[p] = "done" /\ outcome[p] = "ok"
    /\ req["p1"].tag = <<"a">>
    /\ req["p2"].tag = <<" ", "a", " ">>
    /\ req["p1"].description = "d1"
    /\ req["p2"].description = "d2"
    /\ Len(store.tags) = 1
    /\ tagRef["p1"] = tagRef["p2"]

(* ---------------------------------------------------------------------- *)
(* C7                                                                      *)
(* ---------------------------------------------------------------------- *)
\* C7: when a bulk request with references and a description has ended,
\* by a normal return or by an error of a call other than
\* create-relationships itself (a failure of the commit included), either
\* all its associations and its description are stored, or none of its
\* associations is and the description is the one from before.
C7_RelationshipsAndDescriptionAtomic ==
    \A p \in Procs :
        (IsRel(p) /\ pc[p] = "done" /\ NonEmptyDescription(p)
            /\ ObjectsOf(p) # <<>> /\ ~RelationshipsFailed(p))
        => \/ /\ tagRef[p] # 0
              /\ AssocsOf(p) \subseteq store.assocs
              /\ StoredDescription(p) = req[p].description
           \/ /\ store.assocs = store0.assocs
              /\ tagRef[p] # 0 => StoredDescription(p) = DescriptionBefore(p)

(* ---------------------------------------------------------------------- *)
(* C8                                                                      *)
(* ---------------------------------------------------------------------- *)
\* C8: every reference handed to the gateway has an id greater than zero
\* and a type that resolves.
C8_GatewayReferencesPositive ==
    \A p \in Procs :
        \A i \in Indices(calls[p]) :
            \A k \in Indices(calls[p][i].objs) :
                /\ calls[p][i].objs[k][2] > 0
                /\ to_object_type(calls[p][i].objs[k][1]) # NoneVal

(* ---------------------------------------------------------------------- *)
(* C9                                                                      *)
(* ---------------------------------------------------------------------- *)
\* C9: the single-object command's validate raises exactly when the id is 0
\* or the type does not resolve, carries one failure per failed check, and
\* for an id of 0 carries a failure that references the id.
C9_CustomValidateAggregates ==
    \A p \in Procs :
        (IsCustom(p) /\ validated[p]) =>
            LET idBad == req[p].object_id = 0
                typeBad == to_object_type(req[p].object_type) = NoneVal
            IN  /\ (outcome[p] = "TagInvalidError") <=> (idBad \/ typeBad)
                /\ Len(failures[p]) =
                      (IF idBad THEN 1 ELSE 0) + (IF typeBad THEN 1 ELSE 0)
                /\ idBad => \E i \in Indices(failures[p]) :
                               failures[p][i].value = IdStr(req[p].object_id)

(* ---------------------------------------------------------------------- *)
(* C10                                                                     *)
(* ---------------------------------------------------------------------- *)
\* The gateway calls of a validated bulk run are a prefix of get-or-create,
\* create-relationships (iff there are references), commit (iff
\* withDescription); a normal return made them all, stored the description
\* iff withDescription, and created no association for an empty batch.
RunOrder(p, withDescription) ==
    (IsRel(p) /\ validated[p] /\ failures[p] = <<>>) =>
        /\ IsPrefix(Ops(calls[p]), ExpectedOps(p, withDescription))
        /\ pending[p] # NoneVal => pending[p] = req[p].description
        /\ (pc[p] = "done" /\ outcome[p] = "ok") =>
              /\ Ops(calls[p]) = ExpectedOps(p, withDescription)
              /\ StoredDescription(p) =
                    (IF withDescription THEN req[p].description
                                        ELSE DescriptionBefore(p))
              /\ ObjectsOf(p) = <<>> => store.assocs = store0.assocs
              /\ AssocsOf(p) \subseteq store.assocs

\* C10 as stated: the description is set and committed iff one was supplied.
C10_DescriptionIffSupplied ==
    \A p \in Procs : RunOrder(p, req[p].description # NoneVal)

\* C10: the calls come in the order get-or-create, create-relationships,
\* description assignment and commit; create-relationships is called iff
\* there are references, and the description is set and committed iff a
\* non-empty description was supplied, whether or not there are references.
C10_DescriptionIffNonEmpty ==
    \A p \in Procs : RunOrder(p, NonEmptyDescription(p))

C10_Witness ==
    /\ IsRel(Caller)
    /\ pc[Caller] = "done"
    /\ outcome[Caller] = "ok"
    /\ req[Caller].description = "d1"
    /\ ObjectsOf(Caller) = <<>>
    /\ Ops(calls[Caller]) = <<"get_by_name", "commit">>
    /\ StoredDescription(Caller) = "d1"
    /\ store.assocs = store0.assocs

====
